---------------------------- MODULE Spec2Model ----------------------------
(***************************************************************************)
(* ActionKV: an append-only log of framed key/value records with an        *)
(* in-memory index from key to record offset (src/src/lib.rs).             *)
(*                                                                         *)
(* The log is a sequence of bytes.  A 32-bit unsigned field is held as its *)
(* four little-endian bytes, exactly as it lies on disk, so that the       *)
(* checksum and the two length fields keep their width.                    *)
(***************************************************************************)
EXTENDS Integers, Sequences, FiniteSets, TLC

(***************************************************************************)
(* Bounds of the model.                                                    *)
(***************************************************************************)
\* Number of frames the operations may append to the log.
MaxRecords == 3

\* Capacity of the BufReader / BufWriter that lib.rs wraps round the file.
\* std's default is 8192 bytes; the model scales it down so that a log of
\* MaxRecords small frames is longer than one buffer, as a real log is.
BufCap == 16

\* A failing seek or write is injected into one of the first FaultWindow
\* appends only.
FaultWindow == 2

\* A log is cut only while it holds at most TornRecords frames.
TornRecords == 2

\* The log whose byte is changed holds at most FlipRecords frames.
FlipRecords == 2

\* Size of the frame header: checksum, key_len, value_len (three u32).
HeaderLen == 12

\* Keys and values the callers pass: "a", "b" and "1" (delete writes the
\* empty value).
Keys == {<<97>>, <<98>>}
Values == {<<49>>}

Min(a, b) == IF a < b THEN a ELSE b
Max(a, b) == IF a > b THEN a ELSE b

(***************************************************************************)
(* CRC-32/CKSUM (polynomial 0x04C11DB7, initial value 0, no reflection,    *)
(* final xor 0xFFFFFFFF), table driven as in the crc crate.  The 32-bit    *)
(* register is held as four bytes, most significant first.                 *)
(***************************************************************************)
RECURSIVE Xor(_, _)
Xor(a, b) ==
    IF a = 0 THEN b
    ELSE IF b = 0 THEN a
    ELSE ((a + b) % 2) + 2 * Xor(a \div 2, b \div 2)

\* Exclusive or of two 4-bit values, tabulated; of two bytes.
XorNibble == [a \in 0..15 |-> [b \in 0..15 |-> Xor(a, b)]]

XorByte(a, b) ==
    16 * XorNibble[a \div 16][b \div 16] + XorNibble[a % 16][b % 16]

\* One entry of the table: eight shift-and-reduce steps of the register
\* <<high 16 bits, low 16 bits>>; 1217 = 0x04C1 and 7607 = 0x1DB7.
RECURSIVE TableStep(_, _)
TableStep(c, n) ==
    IF n = 0 THEN <<c[1] \div 256, c[1] % 256, c[2] \div 256, c[2] % 256>>
    ELSE LET hi == (c[1] * 2 + c[2] \div 32768) % 65536
             lo == (c[2] * 2) % 65536
         IN  IF c[1] >= 32768
             THEN TableStep(<<Xor(hi, 1217), Xor(lo, 7607)>>, n - 1)
             ELSE TableStep(<<hi, lo>>, n - 1)

CrcTable == [i \in 0..255 |-> TableStep(<<i * 256, 0>>, 8)]

\* crc = (crc << 8) ^ table[(crc >> 24) ^ byte], for the bytes data[lo..hi]
\* in order: the first half of them, then, from the register they leave,
\* the second.
RECURSIVE CrcRange(_, _, _, _)
CrcRange(c, data, lo, hi) ==
    IF lo > hi THEN c
    ELSE IF lo = hi
    THEN LET t == CrcTable[XorByte(c[1], data[lo])]
         IN  <<XorByte(c[2], t[1]), XorByte(c[3], t[2]), XorByte(c[4], t[3]), t[4]>>
    ELSE LET mid == (lo + hi) \div 2
             left == CrcRange(c, data, lo, mid)
         IN  IF Len(left) = 4 THEN CrcRange(left, data, mid + 1, hi) ELSE left

CrcUpdate(c, data, i) == CrcRange(c, data, i, Len(data))

\* A checksum that covers the first byte of the data only.
ChecksumOfFirstByte(data) ==
    LET c == CrcUpdate(<<0, 0, 0, 0>>, SubSeq(data, 1, Min(1, Len(data))), 1)
    IN  <<255 - c[4], 255 - c[3], 255 - c[2], 255 - c[1]>>

\* CRC32.checksum(&data), as the four little-endian bytes write_u32 emits.
Checksum(data) ==
    LET c == CrcUpdate(<<0, 0, 0, 0>>, data, 1)
    IN  <<255 - c[4], 255 - c[3], 255 - c[2], 255 - c[1]>>

(***************************************************************************)
(* u32 fields.                                                             *)
(***************************************************************************)
\* `n as u32` written big-endian.
BE32(n) ==
    <<(n \div 16777216) % 256, (n \div 65536) % 256, (n \div 256) % 256, n % 256>>

\* `n as u32` written little-endian, for the lengths the model reaches.
LE32(n) ==
    <<n % 256, (n \div 256) % 256, (n \div 65536) % 256, (n \div 16777216) % 256>>

\* saved_key_len + saved_value_len on u32: the wrapped sum and whether it
\* overflowed (a debug build panics on overflow, a release build wraps).
U32Add(a, b) ==
    LET s1 == a[1] + b[1]
        s2 == a[2] + b[2] + s1 \div 256
        s3 == a[3] + b[3] + s2 \div 256
        s4 == a[4] + b[4] + s3 \div 256
    IN  [sum |-> <<s1 % 256, s2 % 256, s3 % 256, s4 % 256>>,
         overflow |-> s4 >= 256]

\* min(u, n) for a u32 u and a length n below 2^16: what take(u) can read of
\* n remaining bytes, and what `u as usize` is when it does not exceed n.
U32Min(u, n) ==
    IF u[3] # 0 \/ u[4] # 0 THEN n ELSE Min(u[1] + 256 * u[2], n)

\* u > n for a u32 u and a length n below 2^16.
U32Exceeds(u, n) ==
    u[3] # 0 \/ u[4] # 0 \/ u[1] + 256 * u[2] > n

(***************************************************************************)
(* The frame: checksum | key_len | value_len | key | value.                *)
(***************************************************************************)
Frame(key, value) ==
    Checksum(key \o value) \o LE32(Len(key)) \o LE32(Len(value)) \o key \o value

\* Bytes f[from+1 .. from+n] of the file (offsets count from 0).
Bytes(f, from, n) == SubSeq(f, from + 1, from + n)

\* Offset at which a write lands: insert_but_ignore_index seeks to End(0)
\* before writing, and the file is opened in append mode.
AppendPosAtCursor(f, cur) == cur
AppendPos(f, cur) == Len(f)

\* The file after `bytes` are written at offset `at` (at <= Len(f)).
WriteAt(f, at, bytes) ==
    Bytes(f, 0, at) \o bytes \o Bytes(f, at + Len(bytes), Len(f) - at - Len(bytes))

\* Underlying file position after a BufReader positioned at `pos` with an
\* empty buffer has handed out `taken` bytes: it fills BufCap bytes at a
\* time, and only when its buffer is exhausted.
CursorAfterRead(f, pos, taken) ==
    Min(Len(f), pos + ((taken + BufCap - 1) \div BufCap) * BufCap)


(***************************************************************************)
(* State.                                                                  *)
(***************************************************************************)
VARIABLES
    file,      \* the bytes of the log file on disk
    opened,    \* TRUE while the process holds an ActionKV handle
    index,     \* ActionKV.index: key -> offset
    cursor,    \* position of the handle's file descriptor
    build,     \* "debug" or "release": overflow checks and debug_assert
    nrec,      \* frames appended so far (bounds the model)
    torn,      \* history: <<start, length>> of the frame a truncation cut and
               \* the length it left the file with; <<>> when none happened
    flipped,   \* history: <<start of the frame, offset>> of the byte that was
               \* changed on disk; <<>> when none was
    written,   \* history: key -> <<value, offset of its frame>> of the last
               \* insert/update/delete of that key through this handle
    last       \* the last operation: its arguments, result and pre-state

vars == <<file, opened, index, cursor, build, nrec, torn, flipped, written, last>>

EmptyMap == [k \in {} |-> 0]

Put(m, k, v) == [x \in DOMAIN m \cup {k} |-> IF x = k THEN v ELSE m[x]]

\* Option<T>: None is <<>>, Some(x) is <<x>>.
None == <<>>
Some(x) == <<x>>

\* A record of `last`; fields an operation does not use keep these values.
\* eof0 is the length of the file when the operation began, fault the I/O
\* call that failed during it ("none": every call succeeded).
OpF(name, key, value, pos, res, ret, eof, fault) ==
    [op |-> name, key |-> key, value |-> value, pos |-> pos, res |-> res,
     ret |-> ret, eof0 |-> eof, fault |-> fault]

Op(name, key, value, pos, res, ret, eof) ==
    OpF(name, key, value, pos, res, ret, eof, "none")

(***************************************************************************)
(* process_record: decode one frame through a reader whose buffer is empty *)
(* and whose position is `pos`.  kind is "ok" (a record), "eof" (the       *)
(* UnexpectedEof error of read_u32) or "panic" (the process aborts); next  *)
(* is the reader's position after the record, cur the file descriptor's;   *)
(* nread is data.len() and short whether it differs from data_len.         *)
(***************************************************************************)
Decoded(kind, key, value, next, cur, nread, short) ==
    [kind |-> kind, key |-> key, value |-> value, next |-> next, cur |-> cur,
     nread |-> nread, short |-> short]

ProcessRecord(f, pos, bld) ==
    LET avail == Max(Len(f) - pos, 0)
    IN  IF avail < HeaderLen
        THEN Decoded("eof", <<>>, <<>>, Max(Len(f), pos), Max(Len(f), pos), 0, FALSE)
        ELSE
        LET saved_checksum == Bytes(f, pos, 4)
            saved_key_len == Bytes(f, pos + 4, 4)
            saved_value_len == Bytes(f, pos + 8, 4)
            added == U32Add(saved_key_len, saved_value_len)
            data_len == added.sum
            n == U32Min(data_len, avail - HeaderLen)
            short == U32Exceeds(data_len, n)
            data == Bytes(f, pos + HeaderLen, n)
            cur == IF short THEN Len(f) ELSE CursorAfterRead(f, pos, HeaderLen + n)
            panic == Decoded("panic", <<>>, <<>>, pos, cur, n, short)
        IN  IF added.overflow /\ bld = "debug" THEN panic
            ELSE IF short /\ bld = "debug" THEN panic
            ELSE IF Checksum(data) # saved_checksum THEN panic
            ELSE IF U32Exceeds(saved_key_len, n) THEN panic
            ELSE LET kl == U32Min(saved_key_len, n)
                 IN  Decoded("ok", Bytes(data, 0, kl), Bytes(data, kl, n - kl),
                             pos + HeaderLen + n, cur, n, short)

\* The loop of load: from reader position `pos`, put every decoded key in
\* the index until process_record fails.
RECURSIVE LoadLoop(_, _, _, _)
LoadLoop(f, pos, idx, bld) ==
    LET r == ProcessRecord(f, pos, bld)
    IN  IF r.kind = "ok" THEN LoadLoop(f, r.next, Put(idx, r.key, pos), bld)
        ELSE [kind |-> r.kind, index |-> idx, cur |-> r.cur]

\* The loop of find: from reader position `pos`, keep the last match.
RECURSIVE FindLoop(_, _, _, _, _)
FindLoop(f, pos, target, found, bld) ==
    LET r == ProcessRecord(f, pos, bld)
    IN  IF r.kind = "ok"
        THEN FindLoop(f, r.next, target,
                      IF r.key = target THEN Some(<<pos, r.value>>) ELSE found, bld)
        ELSE [kind |-> r.kind, found |-> found, cur |-> r.cur]

(***************************************************************************)
(* Operations.                                                             *)
(***************************************************************************)
\* A panic aborts the process: the handle and its index are gone.
Crash(name, key, value, pos) ==
    /\ opened' = FALSE
    /\ index' = EmptyMap
    /\ cursor' = 0
    /\ written' = EmptyMap
    /\ last' = Op(name, key, value, pos, "Panic", None, Len(file))
    /\ UNCHANGED <<file, build, torn, flipped, nrec>>

\* ActionKV::open: a new handle on the file; the index starts empty and the
\* descriptor at offset 0.
Open ==
    /\ ~opened
    /\ opened' = TRUE
    /\ index' = EmptyMap
    /\ cursor' = 0
    /\ written' = EmptyMap
    /\ last' = Op("open", <<>>, <<>>, 0, "Ok", None, Len(file))
    /\ UNCHANGED <<file, build, torn, flipped, nrec>>

\* The handle is dropped (the process ends).
Drop ==
    /\ opened
    /\ opened' = FALSE
    /\ index' = EmptyMap
    /\ cursor' = 0
    /\ written' = EmptyMap
    /\ last' = Op("drop", <<>>, <<>>, 0, "Ok", None, Len(file))
    /\ UNCHANGED <<file, build, torn, flipped, nrec>>

\* ActionKV::load.
Load ==
    /\ opened
    /\ LET r == LoadLoop(file, cursor, index, build)
       IN  IF r.kind = "panic" THEN Crash("load", <<>>, <<>>, 0)
           ELSE /\ index' = r.index
                /\ cursor' = r.cur
                /\ last' = Op("load", <<>>, <<>>, 0, "Ok", None, Len(file))
                /\ UNCHANGED <<file, opened, build, torn, flipped, nrec, written>>

\* Whether the error of a write that fails after `done` bytes of the frame
\* reached the file comes back from insert_but_ignore_index.  The frame goes
\* through a BufWriter: the three write_u32 only fill its buffer; write_all
\* buffers the data too when it fits, else flushes the header first (an
\* error of that flush is returned) and writes data of BufCap bytes or more
\* straight through (returned as well).  What is still buffered is flushed
\* when the BufWriter is dropped at the end of the function, after the
\* result Ok(current_position) is made, and that flush's error is dropped.
WriteErrorPropagates(datalen, done) ==
    IF datalen <= BufCap - HeaderLen THEN FALSE
    ELSE IF done < HeaderLen THEN TRUE
    ELSE datalen >= BufCap

\* ActionKV::insert_but_ignore_index followed by the index update of
\* ActionKV::insert; update and delete are insert under another name.
\* fault names the I/O call that fails: "none", "seek" (either seek), or
\* "write" (a write that fails once `done` bytes of the frame are out).
DoInsert(name, key, value, fault, done) ==
    /\ opened
    /\ nrec < MaxRecords
    /\ LET current_position == cursor
           at == AppendPos(file, cursor)
           bytes == Frame(key, value)
           sent == IF fault = "write" THEN Bytes(bytes, 0, done) ELSE bytes
           err == fault = "write" /\ WriteErrorPropagates(Len(key) + Len(value), done)
       IN  IF fault = "seek"
           THEN /\ last' = OpF(name, key, value, 0, "Err", None, Len(file), fault)
                /\ UNCHANGED <<file, cursor, index, written, nrec>>
           ELSE /\ file' = WriteAt(file, at, sent)
                /\ cursor' = at + Len(sent)
                /\ nrec' = IF fault = "none" THEN nrec + 1 ELSE MaxRecords
                /\ IF err
                   THEN /\ last' = OpF(name, key, value, 0, "Err", None,
                                       Len(file), fault)
                        /\ UNCHANGED <<index, written>>
                   ELSE /\ index' = Put(index, key, current_position)
                        /\ written' = Put(written, key, <<value, Len(file)>>)
                        /\ last' = OpF(name, key, value, 0, "Ok",
                                       Some(current_position), Len(file), fault)
    /\ UNCHANGED <<opened, build, torn, flipped>>

Insert(key, value) == DoInsert("insert", key, value, "none", 0)

Update(key, value) == DoInsert("update", key, value, "none", 0)

Delete(key) == DoInsert("delete", key, <<>>, "none", 0)

\* insert during which a seek or a write fails.  The model follows no
\* further append once a write has failed.
InsertFails(key, value, fault, done) ==
    /\ nrec < FaultWindow
    /\ DoInsert("insert", key, value, fault, done)

\* A get_at that does not seek: it decodes where the descriptor stands.
GetAtCursor(position) ==
    /\ opened
    /\ LET r == ProcessRecord(file, cursor, build)
       IN  IF r.kind = "panic" THEN Crash("get_at", <<>>, <<>>, position)
           ELSE /\ cursor' = r.cur
                /\ last' = IF r.kind = "ok"
                           THEN Op("get_at", <<>>, <<>>, position, "Ok",
                                   Some(<<r.key, r.value>>), Len(file))
                           ELSE Op("get_at", <<>>, <<>>, position, "Err", None,
                                   Len(file))
                /\ UNCHANGED <<file, opened, index, build, torn, flipped, nrec, written>>

\* ActionKV::get_at.
GetAt(position) ==
    /\ opened
    /\ LET r == ProcessRecord(file, position, build)
       IN  IF r.kind = "panic" THEN Crash("get_at", <<>>, <<>>, position)
           ELSE /\ cursor' = r.cur
                /\ last' = IF r.kind = "ok"
                           THEN Op("get_at", <<>>, <<>>, position, "Ok",
                                   Some(<<r.key, r.value>>), Len(file))
                           ELSE Op("get_at", <<>>, <<>>, position, "Err", None,
                                   Len(file))
                /\ UNCHANGED <<file, opened, index, build, torn, flipped, nrec, written>>

\* A get that reads the record at offset 0 for a key the index lacks.
GetDefaultsToStart(key) ==
    /\ opened
    /\ LET at == IF key \in DOMAIN index THEN index[key] ELSE 0
           r == ProcessRecord(file, at, build)
       IN  IF r.kind = "panic" THEN Crash("get", key, <<>>, 0)
           ELSE /\ cursor' = r.cur
                /\ last' = IF r.kind = "ok"
                           THEN Op("get", key, <<>>, 0, "Ok",
                                   Some(r.value), Len(file))
                           ELSE Op("get", key, <<>>, 0, "Err", None,
                                   Len(file))
                /\ UNCHANGED <<file, opened, index, build, torn, flipped, nrec, written>>

\* ActionKV::get.
Get(key) ==
    /\ opened
    /\ IF key \notin DOMAIN index
       THEN /\ last' = Op("get", key, <<>>, 0, "Ok", None, Len(file))
            /\ UNCHANGED <<file, opened, index, cursor, build, torn, flipped, nrec, written>>
       ELSE LET r == ProcessRecord(file, index[key], build)
            IN  IF r.kind = "panic" THEN Crash("get", key, <<>>, 0)
                ELSE /\ cursor' = r.cur
                     /\ last' = IF r.kind = "ok"
                                THEN Op("get", key, <<>>, 0, "Ok",
                                        Some(r.value), Len(file))
                                ELSE Op("get", key, <<>>, 0, "Err", None,
                                        Len(file))
                     /\ UNCHANGED <<file, opened, index, build, torn, flipped, nrec, written>>

\* ActionKV::find.
Find(target) ==
    /\ opened
    /\ LET r == FindLoop(file, cursor, target, None, build)
       IN  IF r.kind = "panic" THEN Crash("find", target, <<>>, 0)
           ELSE /\ cursor' = r.cur
                /\ last' = Op("find", target, <<>>, 0, "Ok", r.found,
                              Len(file))
                /\ UNCHANGED <<file, opened, index, build, torn, flipped, nrec, written>>

\* Offsets a caller passes to get_at: the offsets the index holds, where the
\* descriptor stands, and the start of the log.
Offsets == {0, cursor} \cup {index[k] : k \in DOMAIN index}

Init ==
    /\ file = <<>>
    /\ opened = TRUE
    /\ index = EmptyMap
    /\ cursor = 0
    /\ build \in {"debug", "release"}
    /\ nrec = 0
    /\ torn = <<>>
    /\ flipped = <<>>
    /\ written = EmptyMap
    /\ last = Op("open", <<>>, <<>>, 0, "Ok", None, 0)

Next ==
    \/ Open
    \/ Drop
    \/ Load
    \/ \E k \in Keys, v \in Values : Insert(k, v)
    \/ \E k \in Keys, v \in Values : Update(k, v)
    \/ \E k \in Keys : Delete(k)
    \/ \E k \in Keys : Get(k)
    \/ \E p \in Offsets : GetAt(p)
    \/ \E k \in Keys : Find(k)

Spec == Init /\ [][Next]_vars

(***************************************************************************)
(* The engine with failing I/O: a seek or a write of insert may fail.      *)
(***************************************************************************)
Faults == {"seek", "write"}

NextIO ==
    \/ Next
    \/ \E k \in Keys, v \in Values, fault \in Faults :
          \E done \in 0..(HeaderLen + Len(k) + Len(v) - 1) :
              InsertFails(k, v, fault, done)

SpecIO == Init /\ [][NextIO]_vars

(***************************************************************************)
(* The engine on a log that lost its tail: while no handle is open, the    *)
(* file is cut somewhere inside its last frame (a write that did not       *)
(* complete before the machine stopped).  The model follows no append      *)
(* after the cut.                                                          *)
(***************************************************************************)
\* Offset of the last frame of a log made of whole frames.
RECURSIVE LastFrameStart(_, _)
LastFrameStart(f, pos) ==
    LET r == ProcessRecord(f, pos, "release")
    IN  IF r.kind = "ok" /\ r.next < Len(f) THEN LastFrameStart(f, r.next) ELSE pos

Truncate(m) ==
    /\ ~opened
    /\ torn = <<>>
    /\ nrec <= TornRecords
    /\ LET start == LastFrameStart(file, 0)
           r == ProcessRecord(file, start, "release")
       IN  /\ r.kind = "ok"
           /\ r.next = Len(file)
           /\ start < m
           /\ m < Len(file)
           /\ torn' = <<start, Len(file) - start, m>>
    /\ file' = Bytes(file, 0, m)
    /\ last' = Op("truncate", <<>>, <<>>, m, "Ok", None, Len(file))
    /\ nrec' = MaxRecords
    /\ UNCHANGED <<opened, index, cursor, build, flipped, written>>

NextTrunc ==
    \/ Next
    \/ \E m \in 1..(Len(file) - 1) : Truncate(m)

SpecTrunc == Init /\ [][NextTrunc]_vars

(***************************************************************************)
(* The engine on a log with a damaged byte: one byte in the key/value      *)
(* bytes of a whole frame changes on disk (some of its bits flip).  The    *)
(* damage happens while no handle is open, to a log of at most FlipRecords *)
(* frames, and the model follows no append after it.                       *)
(***************************************************************************)
\* Offsets of the frames of a log, scanning from `pos`.
RECURSIVE FrameStarts(_, _)
FrameStarts(f, pos) ==
    LET r == ProcessRecord(f, pos, "release")
    IN  IF r.kind = "ok" THEN {pos} \cup FrameStarts(f, r.next) ELSE {}

\* The bits that flip in the damaged byte.
Masks == {1, 128, 255}

FlipByte(start, off, mask) ==
    /\ ~opened
    /\ flipped = <<>>
    /\ nrec <= FlipRecords
    /\ off >= start + HeaderLen
    /\ start \in FrameStarts(file, 0)
    /\ off < ProcessRecord(file, start, "release").next
    /\ file' = [file EXCEPT ![off + 1] = XorByte(@, mask)]
    /\ flipped' = <<start, off>>
    /\ last' = Op("flip", <<>>, <<>>, off, "Ok", None, Len(file))
    /\ nrec' = MaxRecords
    /\ UNCHANGED <<opened, index, cursor, build, torn, written>>

NextFlip ==
    \/ Open
    \/ Drop
    \/ Load
    \/ /\ nrec < FlipRecords
       /\ \/ \E k \in Keys, v \in Values : Insert(k, v)
          \/ \E k \in Keys, v \in Values : Update(k, v)
          \/ \E k \in Keys : Delete(k)
    \/ \E k \in Keys : Get(k)
    \/ \E p \in Offsets : GetAt(p)
    \/ \E k \in Keys : Find(k)
    \/ /\ ~opened
       /\ flipped = <<>>
       /\ \E start \in FrameStarts(file, 0) :
              \E off \in start..Len(file), mask \in Masks :
                 FlipByte(start, off, mask)

SpecFlip == Init /\ [][NextFlip]_vars

(***************************************************************************)
(* The command-line program akv_disk.  Every command is one process: it    *)
(* opens the file, loads it, runs the command, and ends.                   *)
(***************************************************************************)
\* The commands that append count the records they append up to this.
CliRecords == 4

\* The reserved key of the index snapshot, b"+index".
INDEX_KEY == <<43, 105, 110, 100, 101, 120>>

\* The VALUE arguments of insert and update.
CliValues == {<<49>>, <<50>>}

\* HashMap::remove; KeepEntry removes nothing.
KeepEntry(m, k) == m
Remove(m, k) == [x \in DOMAIN m \ {k} |-> m[x]]

\* bincode's fixed-width little-endian u64, for the numbers the model reaches.
LE64(n) == LE32(n) \o <<0, 0, 0, 0>>

\* The orders in which a HashMap may hand out its entries.
RECURSIVE OrdersOf(_)
OrdersOf(ks) ==
    IF ks = {} THEN {<<>>}
    ELSE UNION {{<<k>> \o rest : rest \in OrdersOf(ks \ {k})} : k \in ks}

Orders(m) == OrdersOf(DOMAIN m)

\* bincode::serialize of a HashMap<ByteString, u64>: the number of entries,
\* then per entry the key (its length, its bytes) and the offset.
RECURSIVE Entries(_, _, _)
Entries(m, order, i) ==
    IF i > Len(order) THEN <<>>
    ELSE LE64(Len(order[i])) \o order[i] \o LE64(m[order[i]])
             \o Entries(m, order, i + 1)

Serialize(m, order) == LE64(Len(order)) \o Entries(m, order, 1)

\* A u64 read at offset `at` of b: whether eight bytes were there, whether
\* it is 2^16 or more, and its low sixteen bits.
U64At(b, at) ==
    IF at + 8 > Len(b) THEN [ok |-> FALSE, big |-> FALSE, lo |-> 0]
    ELSE [ok |-> TRUE, big |-> \E i \in 3..8 : b[at + i] # 0,
          lo |-> b[at + 1] + 256 * b[at + 2]]

\* bincode::deserialize to a HashMap<ByteString, u64>; ok is FALSE when the
\* bytes end early.  Bytes after the last entry are ignored, a key that
\* comes twice keeps its last offset, and an offset of 2^16 or more is held
\* as 2^16, past the end of every log here.
RECURSIVE ReadEntries(_, _, _, _)
ReadEntries(b, at, n, m) ==
    IF n = 0 THEN [ok |-> TRUE, map |-> m]
    ELSE LET kl == U64At(b, at)
         IN  IF ~kl.ok \/ kl.big \/ at + 16 + kl.lo > Len(b)
             THEN [ok |-> FALSE, map |-> EmptyMap]
             ELSE LET p == U64At(b, at + 8 + kl.lo)
                  IN  ReadEntries(b, at + 16 + kl.lo, n - 1,
                          Put(m, Bytes(b, at + 8, kl.lo),
                              IF p.big THEN 65536 ELSE p.lo))

Deserialize(b) ==
    LET n == U64At(b, 0)
    IN  IF ~n.ok \/ n.big THEN [ok |-> FALSE, map |-> EmptyMap]
        ELSE ReadEntries(b, 8, n.lo, EmptyMap)

\* A handle: the file it writes, its descriptor's offset, its index.
Handle(f, cur, idx) == [file |-> f, cursor |-> cur, index |-> idx]

\* ActionKV::insert on handle h, every I/O call succeeding.
Inserted(h, key, value) ==
    LET at == AppendPos(h.file, h.cursor)
        bytes == Frame(key, value)
    IN  Handle(WriteAt(h.file, at, bytes), at + Len(bytes),
               Put(h.index, key, h.cursor))

\* store_index_on_disk, the HashMap serialized in `order`.
StoreIndexOnDisk(h, index_key, order) ==
    LET kept == Remove(h.index, index_key)
    IN  Inserted(Handle(h.file, h.cursor, EmptyMap), index_key,
                 Serialize(kept, order))

\* main returns: the command `name` is done and left handle h.
CliDone(name, key, value, ret, h, appended) ==
    /\ opened' = TRUE
    /\ file' = h.file
    /\ index' = h.index
    /\ cursor' = h.cursor
    /\ nrec' = nrec + appended
    /\ last' = Op(name, key, value, 0, "Ok", ret, Len(file))
    /\ UNCHANGED <<build, torn, flipped, written>>

\* FILE get KEY: ret is Some(value printed), or None after "not found".
CliGet(key) ==
    /\ ~opened
    /\ LET l == LoadLoop(file, 0, EmptyMap, build)
       IN  IF l.kind = "panic" \/ INDEX_KEY \notin DOMAIN l.index
           THEN Crash("cli_get", key, <<>>, 0)
           ELSE
           LET s == ProcessRecord(file, l.index[INDEX_KEY], build)
               d == Deserialize(s.value)
           IN  IF s.kind # "ok" \/ ~d.ok
               THEN Crash("cli_get", key, <<>>, 0)
               ELSE IF key \notin DOMAIN d.map
               THEN CliDone("cli_get", key, <<>>, None,
                            Handle(file, s.cur, l.index), 0)
               ELSE
               LET kv == ProcessRecord(file, d.map[key], build)
               IN  IF kv.kind # "ok"
                   THEN Crash("cli_get", key, <<>>, 0)
                   ELSE CliDone("cli_get", key, <<>>, Some(kv.value),
                                Handle(file, kv.cur, l.index), 0)

\* FILE delete KEY.
CliDelete(key) ==
    /\ ~opened
    /\ nrec < CliRecords
    /\ LET l == LoadLoop(file, 0, EmptyMap, build)
       IN  IF l.kind = "panic" THEN Crash("cli_delete", key, <<>>, 0)
           ELSE CliDone("cli_delete", key, <<>>, None,
                        Inserted(Handle(file, l.cur, l.index), key, <<>>), 1)

\* FILE insert KEY VALUE and FILE update KEY VALUE: the write, then
\* store_index_on_disk.  ret is Some(the index when store_index_on_disk is
\* called).
CliStore(name, key, value) ==
    /\ ~opened
    /\ nrec < CliRecords
    /\ LET l == LoadLoop(file, 0, EmptyMap, build)
       IN  IF l.kind = "panic" THEN Crash(name, key, value, 0)
           ELSE LET h == Inserted(Handle(file, l.cur, l.index), key, value)
                IN  \E order \in Orders(Remove(h.index, INDEX_KEY)) :
                       CliDone(name, key, value, Some(h.index),
                               StoreIndexOnDisk(h, INDEX_KEY, order), 2)

CliInsert(key, value) == CliStore("cli_insert", key, value)

CliUpdate(key, value) == CliStore("cli_update", key, value)

NextCLI ==
    \/ Drop
    \/ \E key \in Keys : CliGet(key)
    \/ \E key \in Keys : CliDelete(key)
    \/ \E key \in Keys, value \in CliValues : CliInsert(key, value)
    \/ \E key \in Keys, value \in CliValues : CliUpdate(key, value)

SpecCLI == Init /\ [][NextCLI]_vars

(***************************************************************************)
(* The length fields by themselves: insert writes key.len() and            *)
(* value.len() as u32, process_record reads them back and adds them.  A    *)
(* length is held as its two 16-bit halves, so that lengths up to 2^32 - 1 *)
(* and their true sum stay within the integers of the checker; the key and *)
(* value bytes of such records are not held.                               *)
(***************************************************************************)
Halves == {0, 1, 32768, 65535}

Lengths == {[hi |-> h, lo |-> l] : h \in Halves, l \in Halves}

\* write_u32::<LittleEndian> and read_u32::<LittleEndian>.
WriteU32(u) == <<u.lo % 256, u.lo \div 256, u.hi % 256, u.hi \div 256>>

ReadU32(b) == [hi |-> b[3] + 256 * b[4], lo |-> b[1] + 256 * b[2]]

\* The header of a record with these lengths is written by insert and read
\* by process_record up to data_len.  pos holds the length fields as
\* written, ret the data_len computed.
DecodeLengths(key_len, value_len) ==
    LET stored == <<WriteU32(key_len), WriteU32(value_len)>>
        added == U32Add(stored[1], stored[2])
    IN  /\ last' = Op("lengths", key_len, value_len, stored,
                      IF added.overflow /\ build = "debug" THEN "Panic" ELSE "Ok",
                      IF added.overflow /\ build = "debug" THEN None
                      ELSE Some(added.sum), Len(file))
        /\ UNCHANGED <<file, opened, index, cursor, build, nrec, torn, flipped,
                       written>>

NextLen == \E key_len \in Lengths, value_len \in Lengths :
               DecodeLengths(key_len, value_len)

SpecLen == Init /\ [][NextLen]_vars

(***************************************************************************)
(* What the claims speak of.                                               *)
(***************************************************************************)
WriteOps == {"insert", "update", "delete"}

\* What get(key) does in the current state: Ok with Some(value) or None,
\* Err (UnexpectedEof), or Panic.
Returns(res, ret) == [res |-> res, ret |-> ret]

GetNow(key) ==
    IF key \notin DOMAIN index THEN Returns("Ok", None)
    ELSE LET r == ProcessRecord(file, index[key], build)
         IN  IF r.kind = "ok" THEN Returns("Ok", Some(r.value))
             ELSE IF r.kind = "eof" THEN Returns("Err", None)
             ELSE Returns("Panic", None)

\* The index a fresh handle builds: open, then load, on the current file.
ReloadedIndex == LoadLoop(file, 0, EmptyMap, build).index

\* The last record with key `target` in a forward scan of the whole log.
LastMatch(target) == FindLoop(file, 0, target, None, build).found

\* A structurally valid frame begins at offset `off`: a whole header, the
\* key and value bytes its lengths announce, and their checksum.
ValidFrameAt(f, off) ==
    /\ off + HeaderLen <= Len(f)
    /\ LET kl == Bytes(f, off + 4, 4)
           vl == Bytes(f, off + 8, 4)
           dl == U32Add(kl, vl)
       IN  /\ ~dl.overflow
           /\ ~U32Exceeds(dl.sum, Len(f) - off - HeaderLen)
           /\ LET n == U32Min(dl.sum, Len(f) - off - HeaderLen)
              IN  Checksum(Bytes(f, off + HeaderLen, n)) = Bytes(f, off, 4)

\* C1: an insert(k, v) that returned Ok, followed at once by get(k), yields
\* Some(v), whatever state the handle was in.
C1_RoundTrip ==
    (opened /\ last.op = "insert" /\ last.res = "Ok")
        => GetNow(last.key) = Returns("Ok", Some(last.value))

\* C2: get(k) returns the value of the most recent write of k through this
\* handle, and a fresh handle's load maps k to the offset of that record.
C2_LastWriteWins ==
    opened =>
        \A k \in DOMAIN written :
            /\ GetNow(k) = Returns("Ok", Some(written[k][1]))
            /\ k \in DOMAIN ReloadedIndex
            /\ ReloadedIndex[k] = written[k][2]

\* C3: find(k) returns the last record with key k of a scan of the whole
\* log from offset 0, wherever the descriptor stood before the call.
C3_FindScansWholeLog ==
    (last.op = "find" /\ last.res = "Ok") => last.ret = LastMatch(last.key)

\* C4: a successful insert, update or delete returns and records the offset
\* at which its frame begins: the length of the file just before the append.
C4_InsertReturnsFrameStart ==
    (last.op \in WriteOps /\ last.res = "Ok")
        => /\ last.ret = Some(last.eof0)
           /\ index[last.key] = last.eof0

\* C5: every offset in the index is the first byte of a structurally valid
\* frame of the log.
C5_IndexAddressesFrames ==
    \A k \in DOMAIN index : ValidFrameAt(file, index[k])

\* C6: after delete(k) the index still holds k, at the offset of the newly
\* appended frame of k with the empty value, and get(k) is Some(empty).
C6_Tombstone ==
    (last.op = "delete" /\ last.res = "Ok")
        => /\ last.key \in DOMAIN index
           /\ index[last.key] = last.eof0
           /\ Bytes(file, last.eof0, Len(file) - last.eof0) = Frame(last.key, <<>>)
           /\ GetNow(last.key) = Returns("Ok", Some(<<>>))

\* C7: when load returns Ok the index is exactly the mapping of a forward
\* scan of the whole log from offset 0: nothing survives from before the
\* call and the descriptor's earlier position does not matter.
C7_LoadRebuildsIndex ==
    (last.op = "load" /\ last.res = "Ok") => index = ReloadedIndex

\* C8: the log is append-only: insert, update and delete extend the file by
\* exactly their frame, written at the previous end of file, and every
\* other operation leaves the file as it was.
C8_AppendOnly ==
    [][IF last'.op \in WriteOps /\ last'.res = "Ok"
       THEN file' = file \o Frame(last'.key, last'.value)
       ELSE file' = file]_vars

\* C8's case: a write that began with the descriptor away from the end of
\* the file (the offset it returned is not the old length), whose frame
\* nevertheless lies at the old end of file with the old bytes before it.
C8_Witness ==
    /\ last.op \in WriteOps
    /\ last.res = "Ok"
    /\ last.eof0 > 0
    /\ last.ret # Some(last.eof0)
    /\ Bytes(file, last.eof0, Len(file) - last.eof0) = Frame(last.key, last.value)

\* C9: when a seek or a write of insert, update or delete fails, the
\* operation returns Err and leaves the index as it was.
C9_IoFailuresNotSwallowed ==
    [][(last'.op \in WriteOps /\ last'.fault # "none")
           => (last'.res = "Err" /\ index' = index)]_vars

\* The log ends in a frame that a truncation cut.
CutLog == torn # <<>> /\ Len(file) = torn[3]

\* C10: decoding a final frame that was cut at any byte inside it yields
\* the end-of-log signal, so that load and find return Ok instead of
\* aborting or reporting corruption.
C10_TruncationIsEndOfLog ==
    CutLog =>
        /\ ProcessRecord(file, torn[1], build).kind = "eof"
        /\ (last.op \in {"load", "find"} => last.res = "Ok")

\* A byte in the key/value bytes of the frame at flipped[1] was changed.
Damaged == flipped # <<>>

\* C11: once a byte in the key/value bytes of a whole frame has changed,
\* decoding that frame aborts on the checksum mismatch and returns no
\* record: get_at at its offset, and get through an index entry for it.
C11_CorruptionDetected ==
    Damaged =>
        /\ ProcessRecord(file, flipped[1], build).kind = "panic"
        /\ (last.op = "get_at" /\ last.pos = flipped[1] => last.res = "Panic")
        /\ \A k \in DOMAIN index :
               index[k] = flipped[1] => GetNow(k) = Returns("Panic", None)

\* C11's case: get_at was called on the damaged frame and aborted.
C11_Witness ==
    /\ Damaged
    /\ last.op = "get_at"
    /\ last.pos = flipped[1]
    /\ last.res = "Panic"

\* C12: after insert or update of the command-line program has stored the
\* snapshot, get(INDEX_KEY) on that handle returns bytes that deserialize
\* to the index as it was when store_index_on_disk was called, less the
\* entry of INDEX_KEY; the snapshot has no entry for INDEX_KEY.
C12_SnapshotRoundTrip ==
    (opened /\ last.op \in {"cli_insert", "cli_update"} /\ last.res = "Ok") =>
        LET g == GetNow(INDEX_KEY)
        IN  /\ g.res = "Ok"
            /\ g.ret # None
            /\ Deserialize(g.ret[1]).ok
            /\ Deserialize(g.ret[1]).map
                   = [k \in DOMAIN last.ret[1] \ {INDEX_KEY} |-> last.ret[1][k]]
            /\ INDEX_KEY \notin DOMAIN Deserialize(g.ret[1]).map

\* C12's case: the index held INDEX_KEY and two more keys when the snapshot
\* was stored.
C12_Witness ==
    /\ opened
    /\ last.op \in {"cli_insert", "cli_update"}
    /\ last.res = "Ok"
    /\ INDEX_KEY \in DOMAIN last.ret[1]
    /\ Cardinality(DOMAIN last.ret[1]) = 3

\* The keys some record of the log gives a value that is not empty: the
\* keys an insert or update wrote.
InsertedKeys ==
    {ProcessRecord(file, at, build).key :
        at \in {x \in FrameStarts(file, 0) :
                   ProcessRecord(file, x, build).value # <<>>}}

\* C13: FILE get KEY for a key that was never inserted prints "not found"
\* and the process ends normally, whatever commands ran on the file before
\* (none, or only deletes, too).
C13_GetMissingKey ==
    (last.op = "cli_get" /\ last.key \notin InsertedKeys)
        => (last.res = "Ok" /\ last.ret = None)

\* C18: what FILE get KEY prints is the value of the last record the log
\* holds for KEY; after FILE delete KEY that is the empty value of the
\* tombstone, never the value written before it.
C18_CliReadsLatest ==
    (last.op = "cli_get" /\ last.res = "Ok" /\ last.ret # None)
        => last.ret = Some(LastMatch(last.key)[1][2])

\* C14: get(k) for a key the index lacks returns Ok(None) and changes
\* neither the log, nor the index, nor the descriptor's offset.
C14_GetMiss ==
    [][(last'.op = "get" /\ last'.key \notin DOMAIN index) =>
          /\ last'.res = "Ok"
          /\ last'.ret = None
          /\ file' = file
          /\ index' = index
          /\ cursor' = cursor]_vars

\* C14's case: a get missed on a handle whose index holds other keys and
\* whose descriptor is not at the start.
C14_Witness ==
    /\ opened
    /\ last.op = "get"
    /\ last.key \notin DOMAIN index
    /\ last.res = "Ok"
    /\ last.ret = None
    /\ DOMAIN index # {}
    /\ cursor > 0

\* What get_at(position) returns on the current file, wherever the
\* descriptor stands.
GetAtNow(position) ==
    LET r == ProcessRecord(file, position, build)
    IN  IF r.kind = "ok" THEN Returns("Ok", Some(<<r.key, r.value>>))
        ELSE IF r.kind = "eof" THEN Returns("Err", None)
        ELSE Returns("Panic", None)

\* The key and value of the frame at offset `off`, read off its layout.
RecordAt(f, off) ==
    LET kl == U32Min(Bytes(f, off + 4, 4), Len(f))
        vl == U32Min(Bytes(f, off + 8, 4), Len(f))
    IN  <<Bytes(f, off + HeaderLen, kl), Bytes(f, off + HeaderLen + kl, vl)>>

\* C15: what get(k) and get_at(offset) return is fixed by the log, the index
\* and the argument, not by where the descriptor stood; get_at at the start
\* of a valid frame returns that frame's key and value.
C15_CursorIndependentReads ==
    /\ last.op = "get_at" =>
           /\ Returns(last.res, last.ret) = GetAtNow(last.pos)
           /\ ValidFrameAt(file, last.pos) =>
                  /\ last.res = "Ok"
                  /\ last.ret = Some(RecordAt(file, last.pos))
    /\ (last.op = "get" /\ last.res # "Panic") =>
           Returns(last.res, last.ret) = GetNow(last.key)

\* C15's case: get_at returned the record of a frame that is not the first.
C15_Witness ==
    /\ last.op = "get_at"
    /\ last.res = "Ok"
    /\ last.pos > 0
    /\ ValidFrameAt(file, last.pos)
    /\ cursor # last.pos

\* C16: on a log of well-formed records load and find end with Ok, and
\* every record they decode ends after it begins, so the offsets they
\* record increase.
C16_ScansTerminateOk ==
    /\ last.op \in {"load", "find"} => last.res = "Ok"
    /\ \A at \in FrameStarts(file, 0) :
           ProcessRecord(file, at, build).next >= at + HeaderLen

\* The log is whole frames from its first byte to its last.
RECURSIVE WholeFrames(_, _)
WholeFrames(f, off) ==
    IF off = Len(f) THEN TRUE
    ELSE /\ ValidFrameAt(f, off)
         /\ LET r == RecordAt(f, off)
            IN  WholeFrames(f, off + HeaderLen + Len(r[1]) + Len(r[2]))

\* C19: with no I/O failure the log is at all times a concatenation of
\* whole frames with matching checksums, and the load of a fresh handle
\* reads it to its end without a checksum mismatch or a partial record.
C19_LogWellFormed ==
    /\ WholeFrames(file, 0)
    /\ LoadLoop(file, 0, EmptyMap, build).kind = "eof"
    /\ LoadLoop(file, 0, EmptyMap, build).cur = Len(file)

\* C19's case: a load of a log of MaxRecords frames left the index a fresh
\* handle builds.
C19_Witness ==
    /\ nrec = MaxRecords
    /\ last.op = "load"
    /\ last.res = "Ok"
    /\ index = ReloadedIndex
    /\ DOMAIN index # {}

\* C17: for a key length and a value length that each fit in u32, the
\* length fields hold them unchanged, and decode computes their true sum as
\* the number of bytes to read, without wrapping modulo 2^32 and without
\* aborting.
C17_LengthArithmetic ==
    last.op = "lengths" =>
        /\ ReadU32(last.pos[1]) = last.key
        /\ ReadU32(last.pos[2]) = last.value
        /\ last.res = "Ok"
        /\ last.ret # None
        /\ LET data_len == ReadU32(last.ret[1])
               low == last.key.lo + last.value.lo
           IN  /\ data_len.lo = low % 65536
               /\ data_len.hi = last.key.hi + last.value.hi + low \div 65536

=============================================================================
